---- MODULE Spec2Model ----
(***************************************************************************)
(* Model of the DAT decryption core of WxDatViewer (src-tauri/src/decrypt):*)
(* the v4 container decryptor V4Decryptor::decrypt with its header parser, *)
(* the AES-ECB handler with PKCS#7 unpadding and align_size, and the XOR   *)
(* cipher, together with the top-level dispatch DatDecryptor::decrypt with *)
(* VersionDetector::detect and V3Decryptor::decrypt, the MIME sniffer      *)
(* detect_mime_type and the entry of WxAMDecoder::decode.                  *)
(* A file is a sequence of bytes; one call of an entry point is            *)
(* executed step by step, the program counter pc naming the next source    *)
(* statement.  The AES-128 block primitive of the external `aes` crate is  *)
(* modelled as a keyed bijection on 16-byte blocks.                        *)
(***************************************************************************)
EXTENDS Integers, Sequences, FiniteSets, TLC

VARIABLES
    entry,      \* the function that was called
    origin,     \* how the producer of the input file built it (environment)
    exists,     \* whether input_path names a readable file
    file,       \* content of the file at input_path
    xor_key,    \* xor_key: u8 argument
    aes_key,    \* aes_key: &[u8] argument
    aes_key_some, \* whether DatDecryptor::decrypt was given Some(aes_key)
    version,    \* DatVersion returned by VersionDetector::detect
    detect_reads, \* log of the reads issued on the stream of detect
    dll_instance, \* DLL_INSTANCE: OnceLock<Result<DllHolder, String>>
    pc,         \* next statement of the running call
    opened,     \* number of File::open calls that succeeded
    pos,        \* stream position of the open file
    reads,      \* log of the reads issued on the stream: <<offset, length>>
    header,     \* V4Header parsed by from_bytes
    aes_data,   \* ciphertext buffer of decrypt_aes_section
    blocks,     \* number of decrypt_block calls made
    raw_len,    \* raw_len of decrypt_remaining_sections
    raw_data,   \* raw_data of decrypt_remaining_sections
    result,     \* the Vec<u8> being assembled
    outcome,    \* value the call returned, or how it ended
    arg,        \* argument of a directly called helper
    ret,        \* value returned by a directly called helper
    page_images,      \* get_images_batch: number of images of the page
    tasks,            \* the spawn_blocking task of each image of the page
    cursor,           \* index of the image the spawn or await loop is at
    images_with_data, \* image_id of the images pushed to the batch
    image_cache,      \* AppState.image_cache: image_id -> data
    cache_lock,       \* holder of the Mutex around image_cache
    loads,            \* number of runs of load_dll_internal in the process
    cleared,          \* clear_image_cache ran since get_images_batch began
    clear_pc,         \* position of a clear_image_cache command
    get_image         \* the get_image_data command: image_id and result

\* state of the batch commands and of the image cache
batch_vars == <<page_images, tasks, cursor, images_with_data, image_cache,
                cache_lock, loads, cleared, clear_pc, get_image>>

\* state of one decrypt or helper call
decrypt_vars == <<entry, exists, file, xor_key, aes_key, aes_key_some, version,
                  detect_reads, opened, pos, reads, header, aes_data, blocks,
                  raw_len, raw_data, result, outcome, arg, ret>>

vars == <<entry, origin, exists, file, xor_key, aes_key, aes_key_some, version,
          detect_reads, dll_instance, pc, opened, pos, reads, header,
          aes_data, blocks, raw_len, raw_data, result, outcome, arg, ret,
          batch_vars>>

\* ------------------------------------------------------------------------
\* Bounds of the explored inputs
\* ------------------------------------------------------------------------
MaxPlainLen == 17
MaxMidLen == 1
MaxTrailLen == 2
MaxAlignArg == 70
MaxUnpadPrefix == 3
MaxPadRun == 17
MaxLegacyLen == 7
MaxXorLen == 2
MaxMimeLen == 13
MaxBatch == 2

\* ------------------------------------------------------------------------
\* Program constants
\* ------------------------------------------------------------------------
BLOCK_SIZE == 16
SIZE == 15
\* let mut signature = [0u8; 6] in VersionDetector::detect
SIGNATURE_LEN == 6

\* ------------------------------------------------------------------------
\* Result<T, DecryptError> values
\* ------------------------------------------------------------------------
IoError(m) == [type |-> "IoError", msg |-> m]
AesDecryptError(m) == [type |-> "AesDecryptError", msg |-> m]
HeaderParseError == [type |-> "HeaderParseError", msg |-> ""]
UnsupportedVersion == [type |-> "UnsupportedVersion", msg |-> ""]
NoError == [type |-> "", msg |-> ""]

Ok(v) == [tag |-> "Ok", val |-> v, err |-> NoError]
Err(e) == [tag |-> "Err", val |-> <<>>, err |-> e]
Panic(m) == [tag |-> "Panic", val |-> <<>>, err |-> [type |-> "panic", msg |-> m]]
Running == [tag |-> "Running", val |-> <<>>, err |-> NoError]

NoHeader == [signature |-> <<>>, aes_size |-> 0, xor_size |-> 0]

\* ------------------------------------------------------------------------
\* Byte helpers
\* ------------------------------------------------------------------------
RECURSIVE BitXor(_, _, _)
BitXor(a, b, n) ==
    IF n = 0 THEN 0
    ELSE (((a % 2) + (b % 2)) % 2) + 2 * BitXor(a \div 2, b \div 2, n - 1)

\* b ^ key on u8
XorByte(b, key) == BitXor(b, key, 8)

Take(s, n) == SubSeq(s, 1, IF n < Len(s) THEN n ELSE Len(s))
Drop(s, n) == SubSeq(s, n + 1, Len(s))
Rep(v, n) == [i \in 1..n |-> v]

\* faulty variant: the key is added to each byte
xor_decrypt_add(data, key) == [i \in 1..Len(data) |-> (data[i] + key) % 256]
\* faulty variant: the first byte is left as it is
xor_decrypt_skip_first(data, key) ==
    [i \in 1..Len(data) |-> IF i = 1 THEN data[i] ELSE XorByte(data[i], key)]
\* V3Decryptor::xor_decrypt
xor_decrypt(data, key) == [i \in 1..Len(data) |-> XorByte(data[i], key)]

\* ------------------------------------------------------------------------
\* AesHandler
\* ------------------------------------------------------------------------
\* faulty variant: an aligned size is left unchanged
align_size_round_up(size) ==
    IF size % BLOCK_SIZE = 0 THEN size ELSE size + (BLOCK_SIZE - (size % BLOCK_SIZE))
\* AesHandler::align_size
align_size(size) == size + (BLOCK_SIZE - (size % BLOCK_SIZE))

\* faulty variant: the padding bytes are not compared
pkcs7_unpad_no_verify(data) ==
    IF Len(data) = 0 THEN Err(AesDecryptError("empty data"))
    ELSE LET padding_len == data[Len(data)] IN
         IF padding_len = 0 \/ padding_len > BLOCK_SIZE \/ padding_len > Len(data)
         THEN Err(AesDecryptError("invalid padding"))
         ELSE Ok(SubSeq(data, 1, Len(data) - padding_len))
\* AesHandler::pkcs7_unpad; val is the buffer as the call leaves it
\* faulty variant: one padding byte is kept
pkcs7_unpad_off_by_one(data) ==
    IF Len(data) = 0 THEN Err(AesDecryptError("empty data"))
    ELSE LET padding_len == data[Len(data)] IN
         IF padding_len = 0 \/ padding_len > BLOCK_SIZE \/ padding_len > Len(data)
         THEN Err(AesDecryptError("invalid padding"))
         ELSE LET start == Len(data) - padding_len IN
              IF \E i \in (start + 1)..Len(data) : data[i] # padding_len
              THEN Err(AesDecryptError("padding verification failed"))
              ELSE Ok(SubSeq(data, 1, start + 1))
pkcs7_unpad(data) ==
    IF Len(data) = 0 THEN Err(AesDecryptError("empty data"))
    ELSE LET padding_len == data[Len(data)] IN
         IF padding_len = 0 \/ padding_len > BLOCK_SIZE \/ padding_len > Len(data)
         THEN Err(AesDecryptError("invalid padding"))
         ELSE LET start == Len(data) - padding_len IN
              IF \E i \in (start + 1)..Len(data) : data[i] # padding_len
              THEN Err(AesDecryptError("padding verification failed"))
              ELSE Ok(SubSeq(data, 1, start))

\* cipher.decrypt_block: the inverse of the producer's EncryptBlock
decrypt_block(block, key) ==
    [j \in 1..BLOCK_SIZE |->
        LET i == ((j + BLOCK_SIZE - 2) % BLOCK_SIZE) + 1
        IN  (block[i] + 256 - key[i]) % 256]

\* faulty variant: only the first block is decrypted
decrypt_chunks_first_only(data, key) ==
    [i \in 1..Len(data) |->
        IF i <= BLOCK_SIZE /\ Len(data) >= BLOCK_SIZE
        THEN decrypt_block(SubSeq(data, 1, BLOCK_SIZE), key)[i]
        ELSE data[i]]

\* the chunks_exact_mut loop of decrypt_ecb: whole blocks are decrypted in
\* place, a trailing partial block is left as it is
decrypt_chunks(data, key) ==
    LET whole == (Len(data) \div BLOCK_SIZE) * BLOCK_SIZE IN
    [i \in 1..Len(data) |->
        IF i <= whole
        THEN LET c == (i - 1) \div BLOCK_SIZE
             IN  decrypt_block(SubSeq(data, c * BLOCK_SIZE + 1, (c + 1) * BLOCK_SIZE),
                              key)[((i - 1) % BLOCK_SIZE) + 1]
        ELSE data[i]]

\* AesHandler::decrypt_ecb
decrypt_ecb(data, key) ==
    IF Len(key) # 16 THEN Err(AesDecryptError("key length"))
    ELSE pkcs7_unpad(decrypt_chunks(data, key))

\* ------------------------------------------------------------------------
\* V4Header
\* ------------------------------------------------------------------------
\* faulty variant: the bytes are taken most significant first
RECURSIVE from_be_bytes(_)
from_be_bytes(b) ==
    IF Len(b) = 0 THEN 0
    ELSE b[Len(b)] + 256 * from_be_bytes(SubSeq(b, 1, Len(b) - 1))
\* u32::from_le_bytes
RECURSIVE from_le_bytes(_)
from_le_bytes(b) ==
    IF Len(b) = 0 THEN 0
    ELSE b[1] + 256 * from_le_bytes(SubSeq(b, 2, Len(b)))

\* faulty variant: a header that does not start like a signature is refused
from_bytes_signed(bytes) ==
    IF Len(bytes) < SIZE \/ SubSeq(bytes, 1, 3) # <<7, 8, 86>> THEN Err(HeaderParseError)
    ELSE Ok([signature |-> SubSeq(bytes, 1, 6),
             aes_size  |-> from_le_bytes(SubSeq(bytes, 7, 10)),
             xor_size  |-> from_le_bytes(SubSeq(bytes, 11, 14))])
\* V4Header::from_bytes (slices are 0-based in the source, 1-based here)
from_bytes(bytes) ==
    IF Len(bytes) < SIZE THEN Err(HeaderParseError)
    ELSE Ok([signature |-> SubSeq(bytes, 1, 6),
             aes_size  |-> from_le_bytes(SubSeq(bytes, 7, 10)),
             xor_size  |-> from_le_bytes(SubSeq(bytes, 11, 14))])

\* ------------------------------------------------------------------------
\* The producer of container files (environment): the inverse operations
\* ------------------------------------------------------------------------
V4_V1_SIGNATURE == <<7, 8, 86, 49, 8, 7>>
V4_V2_SIGNATURE == <<7, 8, 86, 50, 8, 7>>

Le32(n) == <<n % 256, (n \div 256) % 256, (n \div 65536) % 256, n \div 16777216>>

PadLen(n) == BLOCK_SIZE - (n % BLOCK_SIZE)
Pkcs7Pad(p) == p \o Rep(PadLen(Len(p)), PadLen(Len(p)))

EncryptBlock(block, key) ==
    [i \in 1..BLOCK_SIZE |-> (block[(i % BLOCK_SIZE) + 1] + key[i]) % 256]

\* ECB encryption of a buffer whose length is a multiple of the block size
EncryptEcb(data, key) ==
    [i \in 1..Len(data) |->
        LET c == (i - 1) \div BLOCK_SIZE
        IN  EncryptBlock(SubSeq(data, c * BLOCK_SIZE + 1, (c + 1) * BLOCK_SIZE),
                         key)[((i - 1) % BLOCK_SIZE) + 1]]

XorEncrypt(data, key) == [i \in 1..Len(data) |-> XorByte(data[i], key)]

BuildHeader(sig, a, x, rsv) == sig \o Le32(a) \o Le32(x) \o <<rsv>>

\* the bytes a producer described by o writes
FileOf(o) ==
    Take(BuildHeader(o.sig, o.aes_field, o.xor_field, o.rsv)
            \o EncryptEcb(o.plain \o o.pad, o.key)
            \o o.mid
            \o XorEncrypt(o.trail, o.xk),
         o.cut)

\* ------------------------------------------------------------------------
\* VersionDetector, detect_mime_type
\* ------------------------------------------------------------------------
\* faulty variant: what is not a signature is not given a version
detect_strict(head) ==
    IF head = V4_V1_SIGNATURE THEN "V4V1"
    ELSE IF head = V4_V2_SIGNATURE THEN "V4V2"
    ELSE "Unknown"
\* VersionDetector::detect after File::open; head is what the stream holds
\* for read_exact(&mut signature), all six bytes or fewer when the file ends
\* before
detect(head) ==
    IF Len(head) < SIGNATURE_LEN THEN "V3"
    ELSE IF head = V4_V1_SIGNATURE THEN "V4V1"
    ELSE IF head = V4_V2_SIGNATURE THEN "V4V2"
    ELSE "V3"

\* magic numbers of detect_mime_type
JPEG_MAGIC == <<255, 216, 255>>
PNG_MAGIC == <<137, 80, 78, 71>>
GIF_MAGIC == <<71, 73, 70>>
RIFF_MAGIC == <<82, 73, 70, 70>>
WEBP_MAGIC == <<87, 69, 66, 80>>

\* data starts with magic; data[i] is written data[i + 1] here
StartsWith(data, magic, at) ==
    \A i \in 1..Len(magic) : data[at + i] = magic[i]

\* faulty variant: the RIFF container is not looked at
detect_mime_type_no_webp(data) ==
    IF Len(data) < 4 THEN "application/octet-stream"
    ELSE IF Len(data) >= 3 /\ StartsWith(data, JPEG_MAGIC, 0) THEN "image/jpeg"
    ELSE IF Len(data) >= 4 /\ StartsWith(data, PNG_MAGIC, 0) THEN "image/png"
    ELSE IF Len(data) >= 3 /\ StartsWith(data, GIF_MAGIC, 0) THEN "image/gif"
    ELSE "image/jpeg"
\* detect_mime_type
detect_mime_type(data) ==
    IF Len(data) < 4 THEN "application/octet-stream"
    ELSE IF Len(data) >= 3 /\ StartsWith(data, JPEG_MAGIC, 0) THEN "image/jpeg"
    ELSE IF Len(data) >= 4 /\ StartsWith(data, PNG_MAGIC, 0) THEN "image/png"
    ELSE IF Len(data) >= 3 /\ StartsWith(data, GIF_MAGIC, 0) THEN "image/gif"
    ELSE IF /\ Len(data) >= 12
            /\ StartsWith(data, RIFF_MAGIC, 0)
            /\ StartsWith(data, WEBP_MAGIC, 8)
         THEN "image/webp"
    ELSE "image/jpeg"

\* ------------------------------------------------------------------------
\* Inputs
\* ------------------------------------------------------------------------
\* plaintexts: a ramp of distinct bytes (step 37) and a run of 01 bytes, which
\* looks like padding (step 0)
Plain(n, step) == [i \in 1..n |-> (step * i + 1) % 256]
PlainSteps == {0, 37}
Mid(n) == [i \in 1..n |-> (200 + 3 * i) % 256]
Trail(n) == [i \in 1..n |-> (100 + 11 * i) % 256]

Key1 == [i \in 1..16 |-> (17 * i + 3) % 256]
Key2 == [i \in 1..16 |-> (5 * i * i + 101) % 256]
ShortKey == SubSeq(Key1, 1, 15)
LongKey == Key1 \o <<7>>
ValidKeys == {Key1, Key2}
AesKeys == ValidKeys \cup {ShortKey, LongKey}
XorKeys == {0, 90, 255}
Sigs == {V4_V1_SIGNATURE, V4_V2_SIGNATURE}

FullLen(n, m, t) == SIZE + n + PadLen(n) + m + t

\* a container written by the book: the header fields are the lengths of the
\* plaintext and of the trailing region, the padding is PKCS#7
WellFormed(sig, n, step, key, m, t, xk) ==
    [sig |-> sig, plain |-> Plain(n, step), pad |-> Rep(PadLen(n), PadLen(n)),
     key |-> key, mid |-> Mid(m), trail |-> Trail(t), xk |-> xk,
     aes_field |-> n, xor_field |-> t, rsv |-> 0, cut |-> FullLen(n, m, t),
     kind |-> "wellformed"]

WellFormedOrigins ==
    { WellFormed(sig, n, step, key, m, t, xk) :
        sig \in Sigs, n \in 0..MaxPlainLen, step \in PlainSteps, key \in ValidKeys,
        m \in 0..MaxMidLen, t \in 0..MaxTrailLen, xk \in XorKeys }

Base(n, t) == WellFormed(V4_V1_SIGNATURE, n, 37, Key1, MaxMidLen, t, 90)

FieldDeltas == {-16, -2, -1, 1, 2, 16, 256, 65536, 16777216}

\* files cut short at every length
TruncatedOrigins ==
    { [Base(n, MaxTrailLen) EXCEPT !.cut = c, !.kind = "truncated"] :
        n \in {0, MaxPlainLen}, c \in 0..(FullLen(MaxPlainLen, MaxMidLen, MaxTrailLen) - 1) }

\* files whose header fields disagree with the regions that follow
AesFieldOrigins(n) ==
    { [Base(n, MaxTrailLen) EXCEPT !.aes_field = n + d, !.kind = "aes_field"] :
        d \in {e \in FieldDeltas : n + e >= 0} }

XorFieldOrigins(n, t) ==
    { [Base(n, t) EXCEPT !.xor_field = t + d, !.kind = "xor_field"] :
        d \in {e \in FieldDeltas : t + e >= 0} }

FieldOrigins ==
    UNION { AesFieldOrigins(n) : n \in 0..MaxPlainLen }
    \cup UNION { XorFieldOrigins(n, t) : n \in {0, MaxPlainLen}, t \in 0..MaxTrailLen }

\* files whose AES region does not end in PKCS#7 padding
BadPads(k) ==
    {Rep(0, k), Rep(k + BLOCK_SIZE, k), Rep(k + 1, k)}
    \cup (IF k >= 2 THEN {<<k + 1>> \o Rep(k, k - 1)} ELSE {})

BadPadOriginsOf(n) ==
    { [Base(n, MaxTrailLen) EXCEPT !.pad = p, !.kind = "bad_pad"] :
        p \in BadPads(PadLen(n)) }

BadPadOrigins == UNION { BadPadOriginsOf(n) : n \in 0..MaxPlainLen }

\* containers whose signature or reserved byte is not what a producer writes
OddSigs == {Rep(0, SIGNATURE_LEN), [V4_V2_SIGNATURE EXCEPT ![SIGNATURE_LEN] = 9]}
SigOrigins ==
    { [Base(n, t) EXCEPT !.sig = sg, !.rsv = r, !.kind = "sig"] :
        n \in {0, MaxPlainLen}, t \in {0, MaxTrailLen},
        sg \in Sigs \cup OddSigs, r \in {0, 255} }

Origins ==
    WellFormedOrigins \cup TruncatedOrigins \cup FieldOrigins \cup BadPadOrigins
    \cup SigOrigins

\* files without a signature: short files, files that start with a part of a
\* signature, files whose first six bytes miss a signature by one byte
Legacy(n) == [i \in 1..n |-> (31 * i + 7) % 256]
NearSigs ==
    { [sg EXCEPT ![j] = (sg[j] + 2) % 256] : sg \in Sigs, j \in 1..SIGNATURE_LEN }
LegacyFiles ==
    { Legacy(n) : n \in 0..MaxLegacyLen }
    \cup { Take(sg, k) : sg \in Sigs, k \in 0..(SIGNATURE_LEN - 1) }
    \cup { sg \o Legacy(n) : sg \in NearSigs, n \in {0, MaxLegacyLen} }
LegacyOrigins == { [kind |-> "legacy", bytes |-> b] : b \in LegacyFiles }

\* the files DatDecryptor::decrypt is called on
DatOrigins ==
    LegacyOrigins \cup TruncatedOrigins \cup FieldOrigins \cup SigOrigins
    \cup { o \in WellFormedOrigins \cup BadPadOrigins :
              o.key = Key1 /\ o.xk = 90 /\ Len(o.mid) = MaxMidLen }

\* the bytes of the input file
InputFile(o) == IF o.kind = "legacy" THEN o.bytes ELSE FileOf(o)

NoOrigin == [kind |-> "none"]

\* ------------------------------------------------------------------------
\* V4Decryptor::decrypt, statement by statement
\* ------------------------------------------------------------------------
\* the state a call starts from, whatever the entry point
Fresh ==
    /\ version = "none"
    /\ detect_reads = <<>>
    /\ opened = 0
    /\ pos = 0
    /\ reads = <<>>
    /\ header = NoHeader
    /\ aes_data = <<>>
    /\ blocks = 0
    /\ raw_len = 0
    /\ raw_data = <<>>
    /\ result = <<>>
    /\ outcome = Running
    /\ ret = Running

\* a call of V4Decryptor::decrypt(input_path, xor_key, aes_key)
InitDecrypt ==
    /\ entry = "V4Decryptor::decrypt"
    /\ origin \in Origins \cup {NoOrigin}
    /\ exists = (origin # NoOrigin)
    /\ file = IF exists THEN FileOf(origin) ELSE <<>>
    /\ xor_key \in XorKeys
    /\ aes_key \in AesKeys
    /\ aes_key_some = TRUE
    /\ dll_instance = "uninit"
    /\ pc = "check_key"
    /\ arg = <<>>
    /\ Fresh

\* a direct call of one of the public helpers on arg
InitHelper(fn, args) ==
    /\ entry = fn
    /\ origin = NoOrigin
    /\ exists = FALSE
    /\ file = <<>>
    /\ xor_key = 0
    /\ aes_key = <<>>
    /\ aes_key_some = FALSE
    /\ dll_instance = "uninit"
    /\ pc = "call"
    /\ arg \in args
    /\ Fresh

\* a call of DatDecryptor::decrypt(input_path, xor_key, aes_key), where
\* aes_key is an Option
InitDat ==
    /\ entry = "DatDecryptor::decrypt"
    /\ origin \in DatOrigins \cup {NoOrigin}
    /\ exists = (origin # NoOrigin)
    /\ file = IF exists THEN InputFile(origin) ELSE <<>>
    /\ xor_key \in XorKeys
    /\ aes_key_some \in BOOLEAN
    /\ aes_key \in IF aes_key_some THEN AesKeys ELSE {<<>>}
    /\ dll_instance = "uninit"
    /\ pc = "detect_open"
    /\ arg = <<>>
    /\ Fresh

\* arguments of V3Decryptor::xor_decrypt: every key, short buffers
XorData == UNION { [1..n -> {0, 165, 255}] : n \in 0..MaxXorLen }
XorArgs == { [data |-> d, key |-> k] : d \in XorData, k \in 0..255 }

\* arguments of detect_mime_type: every prefix of buffers that start with a
\* magic number, with most of one, or with none
MimeTail == <<224, 0, 16, 74, 70, 73, 70, 0, 1, 1>>
MimeBuffers ==
    { JPEG_MAGIC \o MimeTail,
      PNG_MAGIC \o MimeTail,
      GIF_MAGIC \o <<56, 57, 97>> \o MimeTail,
      RIFF_MAGIC \o <<36, 0, 0, 0>> \o WEBP_MAGIC \o <<86, 80>>,
      RIFF_MAGIC \o <<36, 0, 0, 0>> \o <<87, 65, 86, 69>> \o <<102, 109>>,
      <<255, 216, 0>> \o MimeTail,
      <<137, 80, 78, 0>> \o MimeTail,
      <<71, 73, 0>> \o MimeTail,
      <<0, 0, 0, 0>> \o <<36, 0, 0, 0>> \o WEBP_MAGIC \o <<86, 80>>,
      Rep(66, MaxMimeLen) }
MimeArgs == { Take(b, k) : b \in MimeBuffers, k \in 0..MaxMimeLen }

\* the process WxAMDecoder::decode runs in: what LoadLibraryW would find next
\* to the executable
DllEnvs ==
    { [kind |-> "process", dll |-> d] :
        d \in {"missing", "unloadable", "no_symbol", "present"} }
DecodeArgs == {<<>>, <<119, 120, 97, 109>>}

\* a first call of WxAMDecoder::decode(data, format) in a process
InitDecode ==
    /\ entry = "WxAMDecoder::decode"
    /\ origin \in DllEnvs
    /\ exists = FALSE
    /\ file = <<>>
    /\ xor_key = 0
    /\ aes_key = <<>>
    /\ aes_key_some = FALSE
    /\ dll_instance = "uninit"
    /\ pc = "call"
    /\ arg \in DecodeArgs
    /\ Fresh

AlignArgs == 0..MaxAlignArg

UnpadPrefixes == UNION { [1..n -> {1, 2, 3}] : n \in 0..MaxUnpadPrefix }
UnpadArgs ==
    { pre \o Rep(v, k) :
        pre \in UnpadPrefixes, v \in {0, 1, 2, 4, 16, 17}, k \in 0..MaxPadRun }

FromBytesArgs ==
    { Take(FileOf(o), k) :
        o \in FieldOrigins, k \in {0, SIZE - 1, SIZE, SIZE + 1, SIZE + BLOCK_SIZE} }

\* no batch command runs and the image cache is empty
Free == <<"free", 0>>
NothingGot == [image_id |-> 0, state |-> "idle"]
BatchIdle ==
    /\ page_images = 0
    /\ tasks = <<>>
    /\ cursor = 1
    /\ images_with_data = <<>>
    /\ image_cache = <<>>
    /\ cache_lock = Free
    /\ loads = 0
    /\ cleared = FALSE
    /\ clear_pc = "idle"
    /\ get_image = NothingGot

Init ==
    /\ \/ InitDecrypt
       \/ InitHelper("AesHandler::align_size", AlignArgs)
       \/ InitHelper("AesHandler::pkcs7_unpad", UnpadArgs)
       \/ InitHelper("V4Header::from_bytes", FromBytesArgs)
       \/ InitDat
       \/ InitHelper("V3Decryptor::xor_decrypt", XorArgs)
       \/ InitHelper("detect_mime_type", MimeArgs)
       \/ InitDecode
    /\ BatchIdle

\* the call returns r
Return(r) ==
    /\ outcome' = r
    /\ pc' = "done"

Available == Len(file) - pos

\* file.read_exact on a stream that holds fewer bytes than the buffer:
\* the bytes left are consumed and the call fails with UnexpectedEof
read_exact_eof ==
    /\ reads' = Append(reads, <<pos, Available>>)
    /\ pos' = Len(file)
    /\ Return(Err(IoError("failed to fill whole buffer")))

\* faulty variant: the stream is not advanced
read_exact_no_advance(n) ==
    /\ reads' = Append(reads, <<pos, n>>)
    /\ pos' = pos
\* file.read_exact filling a buffer of n bytes
read_exact(n) ==
    /\ reads' = Append(reads, <<pos, n>>)
    /\ pos' = pos + n

Chunk(n) == SubSeq(file, pos + 1, pos + n)

\* faulty variant: the key length is left to decrypt_ecb
decrypt_key_check_skipped ==
    /\ pc = "check_key"
    /\ pc' = "open"
    /\ UNCHANGED <<batch_vars, entry, origin, exists, file, xor_key, aes_key, aes_key_some, version,
                   detect_reads, dll_instance, opened, pos, reads, header,
                   aes_data, blocks, raw_len, raw_data, result, outcome, arg, ret>>
decrypt_key_check ==
    /\ pc = "check_key"
    /\ IF Len(aes_key) # 16
       THEN Return(Err(AesDecryptError("key length")))
       ELSE pc' = "open" /\ UNCHANGED outcome
    /\ UNCHANGED <<batch_vars, entry, origin, exists, file, xor_key, aes_key, aes_key_some, version,
                   detect_reads, dll_instance, opened, pos, reads, header,
                   aes_data, blocks, raw_len, raw_data, result, arg, ret>>

decrypt_open ==
    /\ pc = "open"
    /\ IF ~exists
       THEN Return(Err(IoError("open"))) /\ UNCHANGED <<opened, pos>>
       ELSE /\ opened' = opened + 1
            /\ pos' = 0
            /\ pc' = "read_header"
            /\ UNCHANGED outcome
    /\ UNCHANGED <<batch_vars, entry, origin, exists, file, xor_key, aes_key, aes_key_some, version,
                   detect_reads, dll_instance, reads, header,
                   aes_data, blocks, raw_len, raw_data, result, arg, ret>>

decrypt_read_header ==
    /\ pc = "read_header"
    /\ IF Available < SIZE
       THEN read_exact_eof /\ UNCHANGED header
       ELSE LET parsed == from_bytes(Chunk(SIZE)) IN
            /\ read_exact(SIZE)
            /\ IF parsed.tag = "Err"
               THEN Return(parsed) /\ UNCHANGED header
               ELSE /\ header' = parsed.val
                    /\ pc' = "read_aes"
                    /\ UNCHANGED outcome
    /\ UNCHANGED <<batch_vars, entry, origin, exists, file, xor_key, aes_key, aes_key_some, version,
                   detect_reads, dll_instance, opened,
                   aes_data, blocks, raw_len, raw_data, result, arg, ret>>

\* decrypt_aes_section up to read_exact
decrypt_aes_section_read ==
    /\ pc = "read_aes"
    /\ LET aes_size_aligned == align_size(header.aes_size) IN
       IF Available < aes_size_aligned
       THEN read_exact_eof /\ UNCHANGED aes_data
       ELSE /\ aes_data' = Chunk(aes_size_aligned)
            /\ read_exact(aes_size_aligned)
            /\ pc' = "decrypt_ecb"
            /\ UNCHANGED outcome
    /\ UNCHANGED <<batch_vars, entry, origin, exists, file, xor_key, aes_key, aes_key_some, version,
                   detect_reads, dll_instance, opened, header,
                   blocks, raw_len, raw_data, result, arg, ret>>

\* AesHandler::decrypt_ecb as called by decrypt_aes_section
decrypt_aes_section_ecb ==
    /\ pc = "decrypt_ecb"
    /\ LET decrypted == decrypt_ecb(aes_data, aes_key) IN
       /\ blocks' = IF Len(aes_key) # 16 THEN blocks
                    ELSE blocks + (Len(aes_data) \div BLOCK_SIZE)
       /\ IF decrypted.tag = "Err"
          THEN Return(decrypted) /\ UNCHANGED result
          ELSE /\ result' = decrypted.val
               /\ pc' = "remaining"
               /\ UNCHANGED outcome
    /\ UNCHANGED <<batch_vars, entry, origin, exists, file, xor_key, aes_key, aes_key_some, version,
                   detect_reads, dll_instance, opened, pos, reads, header,
                   aes_data, raw_len, raw_data, arg, ret>>

\* faulty variant: the middle region is taken to be empty
raw_len_zero(file_len, current_pos, xor_size) == 0
\* let raw_len = file_len - current_pos - xor_size as u64, before wrapping
raw_len_value(file_len, current_pos, xor_size) == file_len - current_pos - xor_size

\* decrypt_remaining_sections: the branch on xor_size and the computation of
\* raw_len.  file_len - current_pos - xor_size is a u64 subtraction: when it
\* underflows, a build with overflow checks panics at the subtraction, and a
\* build without them wraps raw_len to a value above isize::MAX, on which
\* vec![0u8; raw_len as usize] panics with a capacity overflow.
decrypt_remaining_sections ==
    /\ pc = "remaining"
    /\ IF header.xor_size > 0
       THEN LET current_pos == pos
                file_len == Len(file)
            IN  IF raw_len_value(file_len, current_pos, header.xor_size) < 0
                THEN /\ \E m \in {"attempt to subtract with overflow", "capacity overflow"} :
                            Return(Panic(m))
                     /\ UNCHANGED raw_len
                ELSE /\ raw_len' = raw_len_value(file_len, current_pos, header.xor_size)
                     /\ pc' = "read_middle"
                     /\ UNCHANGED outcome
       ELSE /\ pc' = "read_to_end"
            /\ UNCHANGED <<raw_len, outcome>>
    /\ UNCHANGED <<batch_vars, entry, origin, exists, file, xor_key, aes_key, aes_key_some, version,
                   detect_reads, dll_instance, opened, pos, reads, header,
                   aes_data, blocks, raw_data, result, arg, ret>>

\* if raw_len > 0 { read_exact(buffer) }
decrypt_remaining_read_raw ==
    /\ pc = "read_middle"
    /\ IF raw_len > 0
       THEN IF Available < raw_len
            THEN read_exact_eof /\ UNCHANGED raw_data
            ELSE /\ raw_data' = Chunk(raw_len)
                 /\ read_exact(raw_len)
                 /\ pc' = "read_xor"
                 /\ UNCHANGED outcome
       ELSE /\ pc' = "read_xor"
            /\ UNCHANGED <<raw_data, pos, reads, outcome>>
    /\ UNCHANGED <<batch_vars, entry, origin, exists, file, xor_key, aes_key, aes_key_some, version,
                   detect_reads, dll_instance, opened, header,
                   aes_data, blocks, raw_len, result, arg, ret>>

\* the XOR region is read and decrypted, and the parts are put together
decrypt_remaining_read_xor ==
    /\ pc = "read_xor"
    /\ IF Available < header.xor_size
       THEN read_exact_eof /\ UNCHANGED result
       ELSE LET xored_data == xor_decrypt(Chunk(header.xor_size), xor_key) IN
            /\ read_exact(header.xor_size)
            /\ result' = result \o raw_data \o xored_data
            /\ Return(Ok(result'))
    /\ UNCHANGED <<batch_vars, entry, origin, exists, file, xor_key, aes_key, aes_key_some, version,
                   detect_reads, dll_instance, opened, header,
                   aes_data, blocks, raw_len, raw_data, arg, ret>>

\* faulty variant: the rest of the file is XORed
decrypt_remaining_read_to_end_xor ==
    /\ pc = "read_to_end"
    /\ reads' = Append(reads, <<pos, Available>>)
    /\ pos' = Len(file)
    /\ result' = result \o xor_decrypt(Drop(file, pos), xor_key)
    /\ Return(Ok(result'))
    /\ UNCHANGED <<batch_vars, entry, origin, exists, file, xor_key, aes_key, aes_key_some, version,
                   detect_reads, dll_instance, opened, header,
                   aes_data, blocks, raw_len, raw_data, arg, ret>>
\* xor_size == 0: read_to_end
decrypt_remaining_read_to_end ==
    /\ pc = "read_to_end"
    /\ reads' = Append(reads, <<pos, Available>>)
    /\ pos' = Len(file)
    /\ result' = result \o Drop(file, pos)
    /\ Return(Ok(result'))
    /\ UNCHANGED <<batch_vars, entry, origin, exists, file, xor_key, aes_key, aes_key_some, version,
                   detect_reads, dll_instance, opened, header,
                   aes_data, blocks, raw_len, raw_data, arg, ret>>

\* direct calls of the public helpers
CallAlignSize ==
    /\ entry = "AesHandler::align_size"
    /\ pc = "call"
    /\ ret' = align_size(arg)
    /\ pc' = "returned"
    /\ UNCHANGED <<batch_vars, entry, origin, exists, file, xor_key, aes_key, aes_key_some, version,
                   detect_reads, dll_instance, opened, pos, reads, header,
                   aes_data, blocks, raw_len, raw_data, result, outcome, arg>>

CallPkcs7Unpad ==
    /\ entry = "AesHandler::pkcs7_unpad"
    /\ pc = "call"
    /\ ret' = pkcs7_unpad(arg)
    /\ pc' = "returned"
    /\ UNCHANGED <<batch_vars, entry, origin, exists, file, xor_key, aes_key, aes_key_some, version,
                   detect_reads, dll_instance, opened, pos, reads, header,
                   aes_data, blocks, raw_len, raw_data, result, outcome, arg>>

CallFromBytes ==
    /\ entry = "V4Header::from_bytes"
    /\ pc = "call"
    /\ ret' = from_bytes(arg)
    /\ pc' = "returned"
    /\ UNCHANGED <<batch_vars, entry, origin, exists, file, xor_key, aes_key, aes_key_some, version,
                   detect_reads, dll_instance, opened, pos, reads, header,
                   aes_data, blocks, raw_len, raw_data, result, outcome, arg>>

\* ------------------------------------------------------------------------
\* DatDecryptor::decrypt: detect_version, then the decryptor of the version
\* ------------------------------------------------------------------------
\* File::open in VersionDetector::detect
detect_open ==
    /\ pc = "detect_open"
    /\ IF ~exists
       THEN Return(Err(IoError("open"))) /\ UNCHANGED <<opened, pos>>
       ELSE /\ opened' = opened + 1
            /\ pos' = 0
            /\ pc' = "detect_read"
            /\ UNCHANGED outcome
    /\ UNCHANGED <<batch_vars, entry, origin, exists, file, xor_key, aes_key,
                   aes_key_some, version, detect_reads, dll_instance, reads,
                   header, aes_data, blocks, raw_len, raw_data, result, arg,
                   ret>>

\* read_exact(&mut signature) and the match on it; the stream of detect is
\* dropped when detect returns
detect_read ==
    /\ pc = "detect_read"
    /\ LET got == IF Available < SIGNATURE_LEN THEN Available ELSE SIGNATURE_LEN IN
       /\ detect_reads' = Append(detect_reads, <<pos, got>>)
       /\ pos' = pos + got
       /\ version' = detect(Chunk(got))
    /\ pc' = "dispatch"
    /\ UNCHANGED <<batch_vars, entry, origin, exists, file, xor_key, aes_key,
                   aes_key_some, dll_instance, opened, reads, header,
                   aes_data, blocks, raw_len, raw_data, result, outcome,
                   arg, ret>>

\* faulty variant: a missing key is handed on as an empty key
dispatch_without_key_check ==
    /\ pc = "dispatch"
    /\ IF version = "V3" THEN pc' = "v3_open" /\ UNCHANGED outcome
       ELSE IF version \in {"V4V1", "V4V2"} THEN pc' = "check_key" /\ UNCHANGED outcome
       ELSE Return(Err(UnsupportedVersion))
    /\ UNCHANGED <<batch_vars, entry, origin, exists, file, xor_key, aes_key,
                   aes_key_some, version, detect_reads, dll_instance,
                   opened, pos, reads, header, aes_data, blocks, raw_len,
                   raw_data, result, arg, ret>>
\* match version { ... }
dispatch ==
    /\ pc = "dispatch"
    /\ IF version = "V3" THEN pc' = "v3_open" /\ UNCHANGED outcome
       ELSE IF version \in {"V4V1", "V4V2"}
            THEN IF ~aes_key_some
                 THEN Return(Err(AesDecryptError("missing key")))
                 ELSE pc' = "check_key" /\ UNCHANGED outcome
       ELSE Return(Err(UnsupportedVersion))
    /\ UNCHANGED <<batch_vars, entry, origin, exists, file, xor_key, aes_key,
                   aes_key_some, version, detect_reads, dll_instance,
                   opened, pos, reads, header, aes_data, blocks, raw_len,
                   raw_data, result, arg, ret>>

\* File::open in V3Decryptor::decrypt
v3_open ==
    /\ pc = "v3_open"
    /\ IF ~exists
       THEN Return(Err(IoError("open"))) /\ UNCHANGED <<opened, pos>>
       ELSE /\ opened' = opened + 1
            /\ pos' = 0
            /\ pc' = "v3_read"
            /\ UNCHANGED outcome
    /\ UNCHANGED <<batch_vars, entry, origin, exists, file, xor_key, aes_key,
                   aes_key_some, version, detect_reads, dll_instance, reads,
                   header, aes_data, blocks, raw_len, raw_data, result, arg,
                   ret>>

\* read_to_end and xor_decrypt
v3_read ==
    /\ pc = "v3_read"
    /\ LET data == Drop(file, pos) IN
       /\ reads' = Append(reads, <<pos, Available>>)
       /\ pos' = Len(file)
       /\ result' = xor_decrypt(data, xor_key)
       /\ Return(Ok(result'))
    /\ UNCHANGED <<batch_vars, entry, origin, exists, file, xor_key, aes_key,
                   aes_key_some, version, detect_reads, dll_instance,
                   opened, header, aes_data, blocks, raw_len, raw_data, arg,
                   ret>>

\* ------------------------------------------------------------------------
\* WxAMDecoder
\* ------------------------------------------------------------------------
EmptyInput == [type |-> "EmptyInput", msg |-> ""]
DllLoadFailed(m) == [type |-> "DllLoadFailed", msg |-> m]
DecodeFailed == [type |-> "DecodeFailed", msg |-> ""]
InvalidOutputSize == [type |-> "InvalidOutputSize", msg |-> ""]

\* load_dll_internal().map_err(|e| e.to_string()) in the process env
load_dll_internal(env) ==
    IF env.dll = "missing" THEN "DllNotFound"
    ELSE IF env.dll = "unloadable" THEN "LoadLibrary"
    ELSE IF env.dll = "no_symbol" THEN "no function"
    ELSE "loaded"

\* DLL_INSTANCE.get_or_init(...)
get_or_init(instance, env) ==
    IF instance = "uninit" THEN load_dll_internal(env) ELSE instance

\* WxAMDecoder::decode: load_dll()?, then the check of the input, then the
\* call of the function of the library, whose return code and output size
\* are its own
decode ==
    /\ entry = "WxAMDecoder::decode"
    /\ pc = "call"
    /\ dll_instance' = get_or_init(dll_instance, origin)
    /\ IF dll_instance' # "loaded"
       THEN ret' = Err(DllLoadFailed(dll_instance'))
       ELSE IF Len(arg) = 0
       THEN ret' = Err(EmptyInput)
       ELSE \E code \in {0, 1}, output_size \in {0, 2} :
                ret' = IF code # 0 THEN Err(DecodeFailed)
                       ELSE IF output_size <= 0 THEN Err(InvalidOutputSize)
                       ELSE Ok(Rep(0, output_size))
    /\ pc' = "returned"
    /\ UNCHANGED <<batch_vars, entry, origin, exists, file, xor_key, aes_key,
                   aes_key_some, version, detect_reads, opened, pos, reads,
                   header, aes_data, blocks, raw_len, raw_data, result,
                   outcome, arg>>

\* the process calls decode again; the library next to the executable may
\* have been put there or removed in between
decode_again ==
    /\ entry = "WxAMDecoder::decode"
    /\ pc = "returned"
    /\ origin' \in DllEnvs
    /\ arg' \in DecodeArgs
    /\ ret' = Running
    /\ pc' = "call"
    /\ UNCHANGED <<batch_vars, entry, exists, file, xor_key, aes_key, aes_key_some,
                   version, detect_reads, dll_instance, opened, pos, reads,
                   header, aes_data, blocks, raw_len, raw_data, result,
                   outcome>>

\* V3Decryptor::xor_decrypt(data, key), and xor_decrypt(&encrypted, key)
\* on what it returned
CallXorDecrypt ==
    /\ entry = "V3Decryptor::xor_decrypt"
    /\ pc = "call"
    /\ ret' = xor_decrypt(arg.data, arg.key)
    /\ pc' = "again"
    /\ UNCHANGED <<batch_vars, entry, origin, exists, file, xor_key, aes_key,
                   aes_key_some, version, detect_reads, dll_instance,
                   opened, pos, reads, header, aes_data, blocks, raw_len,
                   raw_data, result, outcome, arg>>

CallXorDecryptAgain ==
    /\ entry = "V3Decryptor::xor_decrypt"
    /\ pc = "again"
    /\ ret' = xor_decrypt(ret, arg.key)
    /\ pc' = "returned"
    /\ UNCHANGED <<batch_vars, entry, origin, exists, file, xor_key, aes_key,
                   aes_key_some, version, detect_reads, dll_instance,
                   opened, pos, reads, header, aes_data, blocks, raw_len,
                   raw_data, result, outcome, arg>>

CallDetectMimeType ==
    /\ entry = "detect_mime_type"
    /\ pc = "call"
    /\ ret' = detect_mime_type(arg)
    /\ pc' = "returned"
    /\ UNCHANGED <<batch_vars, entry, origin, exists, file, xor_key, aes_key,
                   aes_key_some, version, detect_reads, dll_instance,
                   opened, pos, reads, header, aes_data, blocks, raw_len,
                   raw_data, result, outcome, arg>>

Next ==
    \/ decrypt_key_check
    \/ decrypt_open
    \/ decrypt_read_header
    \/ decrypt_aes_section_read
    \/ decrypt_aes_section_ecb
    \/ decrypt_remaining_sections
    \/ decrypt_remaining_read_raw
    \/ decrypt_remaining_read_xor
    \/ decrypt_remaining_read_to_end
    \/ CallAlignSize
    \/ CallPkcs7Unpad
    \/ CallFromBytes
    \/ detect_open
    \/ detect_read
    \/ dispatch
    \/ v3_open
    \/ v3_read
    \/ decode
    \/ decode_again
    \/ CallXorDecrypt
    \/ CallXorDecryptAgain
    \/ CallDetectMimeType

Spec == Init /\ [][Next]_vars

\* ------------------------------------------------------------------------
\* get_images_batch, get_image_data, clear_image_cache: the parallel decrypt
\* tasks of one batch, the image cache behind its Mutex, and the OnceLock of
\* the native library the tasks reach through normalize_decrypted_image
\* ------------------------------------------------------------------------
Spawned == [pc |-> "decrypt", data |-> "none", seen |-> "none", ret |-> "none"]
NotSpawned == [Spawned EXCEPT !.pc = "unspawned"]

\* get_images_batch after paging: page_images holds 0..MaxBatch images with
\* distinct paths; the cache is empty or holds this page from an earlier call
InitBatch ==
    /\ entry = "get_images_batch"
    /\ origin \in DllEnvs
    /\ exists = FALSE
    /\ file = <<>>
    /\ xor_key = 0
    /\ aes_key = <<>>
    /\ aes_key_some = FALSE
    /\ dll_instance = "uninit"
    /\ pc = "spawn"
    /\ arg = <<>>
    /\ Fresh
    /\ page_images \in 0..MaxBatch
    /\ tasks = [i \in 1..page_images |-> NotSpawned]
    /\ cursor = 1
    /\ images_with_data = <<>>
    /\ image_cache \in {<<>>, [i \in 1..page_images |-> "raw"]}
    /\ cache_lock = Free
    /\ loads = 0
    /\ cleared = FALSE
    /\ clear_pc = "idle"
    /\ get_image = NothingGot

\* for img_info in page_images { tasks.push(spawn_blocking(...)) }
batch_spawn ==
    /\ entry = "get_images_batch"
    /\ pc = "spawn"
    /\ IF cursor <= page_images
       THEN /\ tasks' = [tasks EXCEPT ![cursor] = Spawned]
            /\ cursor' = cursor + 1
            /\ UNCHANGED pc
       ELSE /\ cursor' = 1
            /\ pc' = "await"
            /\ UNCHANGED tasks
    /\ UNCHANGED <<decrypt_vars, origin, dll_instance, page_images,
                   images_with_data, image_cache, cache_lock, loads,
                   cleared, clear_pc, get_image>>

\* the task calls DatDecryptor::decrypt on its file: a payload, which may be
\* a WXGF image, an error (the task returns Err) or a panic (the JoinHandle
\* yields a JoinError)
task_decrypt(i) ==
    /\ tasks[i].pc = "decrypt"
    /\ \E r \in {"image", "wxgf", "Err", "Panic"} :
          tasks' = [tasks EXCEPT ![i] =
                      IF r = "image" THEN [@ EXCEPT !.pc = "lock", !.data = "raw"]
                      ELSE IF r = "wxgf" THEN [@ EXCEPT !.pc = "load_dll", !.data = "raw"]
                      ELSE [@ EXCEPT !.pc = "finished", !.ret = r]]
    /\ UNCHANGED <<decrypt_vars, origin, dll_instance, pc, page_images,
                   cursor, images_with_data, image_cache, cache_lock,
                   loads, cleared, clear_pc, get_image>>

\* OnceLock: the cell holds a value
Completed(instance) == instance \notin {"uninit", "running"}

\* faulty variant: a second caller does not wait for the running closure
CanInitRacy(instance) == instance \in {"uninit", "running"}
\* OnceLock::get_or_init: the caller that finds the cell uninitialised runs
\* the closure; callers that find it running wait
CanInit(instance) == instance = "uninit"

\* normalize_decrypted_image on WXGF data: wxam_to_image, decode, load_dll,
\* DLL_INSTANCE.get_or_init
task_load_dll(i) ==
    /\ tasks[i].pc = "load_dll"
    /\ IF Completed(dll_instance)
       THEN /\ tasks' = [tasks EXCEPT ![i].pc = "decode", ![i].seen = dll_instance]
            /\ UNCHANGED <<dll_instance, loads>>
       ELSE /\ CanInit(dll_instance)
            /\ dll_instance' = "running"
            /\ loads' = loads + 1
            /\ tasks' = [tasks EXCEPT ![i].pc = "loading"]
    /\ UNCHANGED <<decrypt_vars, origin, pc, page_images, cursor,
                   images_with_data, image_cache, cache_lock, cleared,
                   clear_pc, get_image>>

\* the closure of get_or_init: load_dll_internal in the process env, stored
\* in the cell
task_load_dll_internal(i) ==
    /\ tasks[i].pc = "loading"
    /\ dll_instance' = load_dll_internal(origin)
    /\ tasks' = [tasks EXCEPT ![i].pc = "decode", ![i].seen = dll_instance']
    /\ UNCHANGED <<decrypt_vars, origin, pc, page_images, cursor,
                   images_with_data, image_cache, cache_lock, loads,
                   cleared, clear_pc, get_image>>

\* decode after load_dll: without the library the data stays as decrypted;
\* with it the function of the library converts the data or fails
task_decode(i) ==
    /\ tasks[i].pc = "decode"
    /\ IF tasks[i].seen # "loaded"
       THEN tasks' = [tasks EXCEPT ![i].pc = "lock"]
       ELSE \E d \in {"raw", "converted"} :
                tasks' = [tasks EXCEPT ![i].pc = "lock", ![i].data = d]
    /\ UNCHANGED <<decrypt_vars, origin, dll_instance, pc, page_images,
                   cursor, images_with_data, image_cache, cache_lock,
                   loads, cleared, clear_pc, get_image>>

\* let mut cache_map = cache_clone.lock().unwrap()
task_lock(i) ==
    /\ tasks[i].pc = "lock"
    /\ cache_lock = Free
    /\ cache_lock' = <<"task", i>>
    /\ tasks' = [tasks EXCEPT ![i].pc = "insert"]
    /\ UNCHANGED <<decrypt_vars, origin, dll_instance, pc, page_images,
                   cursor, images_with_data, image_cache, loads, cleared,
                   clear_pc, get_image>>

\* faulty variant: the map is replaced by one that holds the new entry only
InsertAlone(cache, image_id, data) == [k \in {image_id} |-> data]
\* HashMap::insert(image_id, data)
Insert(cache, image_id, data) ==
    [k \in DOMAIN cache \cup {image_id} |-> IF k = image_id THEN data ELSE cache[k]]

\* cache_map.insert(image_id.clone(), normalized_data); Ok(ImageWithData);
\* the guard is dropped when the closure returns
task_insert(i) ==
    /\ tasks[i].pc = "insert"
    /\ image_cache' = Insert(image_cache, i, tasks[i].data)
    /\ cache_lock' = Free
    /\ tasks' = [tasks EXCEPT ![i].pc = "finished", ![i].ret = "Ok"]
    /\ UNCHANGED <<decrypt_vars, origin, dll_instance, pc, page_images,
                   cursor, images_with_data, loads, cleared, clear_pc,
                   get_image>>

\* for task in tasks { if let Ok(Ok(img)) = task.await { push(img) } }, then
\* Ok(ImageBatch { .. })
batch_await ==
    /\ entry = "get_images_batch"
    /\ pc = "await"
    /\ IF cursor <= page_images
       THEN /\ tasks[cursor].pc = "finished"
            /\ images_with_data' = IF tasks[cursor].ret = "Ok"
                                   THEN Append(images_with_data, cursor)
                                   ELSE images_with_data
            /\ cursor' = cursor + 1
            /\ UNCHANGED pc
       ELSE /\ pc' = "returned"
            /\ UNCHANGED <<images_with_data, cursor>>
    /\ UNCHANGED <<decrypt_vars, origin, dll_instance, page_images, tasks,
                   image_cache, cache_lock, loads, cleared, clear_pc,
                   get_image>>

\* clear_image_cache: state.image_cache.lock().unwrap()
clear_lock ==
    /\ entry = "get_images_batch"
    /\ clear_pc = "idle"
    /\ cache_lock = Free
    /\ cache_lock' = <<"clear", 0>>
    /\ clear_pc' = "locked"
    /\ UNCHANGED <<decrypt_vars, origin, dll_instance, pc, page_images,
                   tasks, cursor, images_with_data, image_cache, loads,
                   cleared, get_image>>

\* cache.clear(); Ok(())
clear_image_cache ==
    /\ clear_pc = "locked"
    /\ image_cache' = <<>>
    /\ cleared' = TRUE
    /\ cache_lock' = Free
    /\ clear_pc' = "idle"
    /\ UNCHANGED <<decrypt_vars, origin, dll_instance, pc, page_images,
                   tasks, cursor, images_with_data, loads, get_image>>

\* get_image_data(image_id) for an image of the returned batch:
\* state.image_cache.lock().unwrap()
get_image_lock ==
    /\ entry = "get_images_batch"
    /\ pc = "returned"
    /\ get_image.state = "idle"
    /\ cache_lock = Free
    /\ \E k \in 1..Len(images_with_data) :
          get_image' = [image_id |-> images_with_data[k], state |-> "locked"]
    /\ cache_lock' = <<"get", 0>>
    /\ UNCHANGED <<decrypt_vars, origin, dll_instance, pc, page_images,
                   tasks, cursor, images_with_data, image_cache, loads,
                   cleared, clear_pc>>

\* cache.get(&image_id).cloned().ok_or_else(..)
get_image_data ==
    /\ get_image.state = "locked"
    /\ get_image' = [get_image EXCEPT !.state =
                        IF get_image.image_id \in DOMAIN image_cache THEN "Ok" ELSE "Err"]
    /\ cache_lock' = Free
    /\ UNCHANGED <<decrypt_vars, origin, dll_instance, pc, page_images,
                   tasks, cursor, images_with_data, image_cache, loads,
                   cleared, clear_pc>>

\* the library next to the executable is put there, replaced or removed
env_change ==
    /\ entry = "get_images_batch"
    /\ origin' \in DllEnvs \ {origin}
    /\ UNCHANGED <<decrypt_vars, dll_instance, pc, page_images, tasks,
                   cursor, images_with_data, image_cache, cache_lock,
                   loads, cleared, clear_pc, get_image>>

NextBatch ==
    \/ batch_spawn
    \/ \E i \in 1..page_images : task_decrypt(i)
    \/ \E i \in 1..page_images : task_load_dll(i)
    \/ \E i \in 1..page_images : task_load_dll_internal(i)
    \/ \E i \in 1..page_images : task_decode(i)
    \/ \E i \in 1..page_images : task_lock(i)
    \/ \E i \in 1..page_images : task_insert(i)
    \/ batch_await
    \/ clear_lock
    \/ clear_image_cache
    \/ get_image_lock
    \/ get_image_data
    \/ env_change

SpecBatch == InitBatch /\ [][NextBatch]_vars

\* ------------------------------------------------------------------------
\* Properties
\* ------------------------------------------------------------------------
Done == pc = "done"

\* the call is one of V4Decryptor::decrypt, made directly or by the dispatch
\* of DatDecryptor::decrypt
ContainerCall == entry = "V4Decryptor::decrypt" \/ version \in {"V4V1", "V4V2"}
Succeeded == Done /\ ContainerCall /\ outcome.tag = "Ok"

\* offset of the first byte after the AES region, as the header gives it
AesEnd == SIZE + align_size(header.aes_size)

\* the decrypted AES region of the file
DecryptedAesRegion == decrypt_ecb(SubSeq(file, SIZE + 1, AesEnd), aes_key).val

\* the file is a container written by the book and the call uses its keys
Matching ==
    /\ origin.kind = "wellformed"
    /\ aes_key = origin.key
    /\ xor_key = origin.xk

\* C1: a container built as header (aes_region_size = |P|, xor_region_size =
\* |T|) ++ ECB(PKCS7(P)) ++ M ++ (T XOR k), with |T| > 0, decrypts with the
\* same keys to exactly P ++ M ++ T.
C1_RoundTrip ==
    (Done /\ Matching /\ Len(origin.trail) > 0)
        => outcome = Ok(origin.plain \o origin.mid \o origin.trail)

C1_Witness ==
    /\ Succeeded /\ Matching
    /\ Len(origin.plain) = BLOCK_SIZE
    /\ Len(origin.mid) > 0
    /\ Len(origin.trail) > 0
    /\ outcome.val = origin.plain \o origin.mid \o origin.trail

\* C2: when decrypt succeeds with xor_region_size > 0, the result is the
\* decrypted AES region, then the bytes from the end of the AES region up to
\* file_length - xor_region_size verbatim, then the last xor_region_size
\* bytes of the file each XORed with xor_key.
C2_ThreeRegions ==
    (Succeeded /\ header.xor_size > 0)
        => outcome.val =
              DecryptedAesRegion
              \o SubSeq(file, AesEnd + 1, Len(file) - header.xor_size)
              \o [i \in 1..header.xor_size |->
                    XorByte(file[Len(file) - header.xor_size + i], xor_key)]

C2_Witness ==
    /\ Succeeded
    /\ header.xor_size = MaxTrailLen
    /\ Len(file) - header.xor_size > AesEnd
    /\ xor_key # 0

\* C3: when decrypt succeeds, file_length = 15 + align_size(aes_region_size)
\* + raw_middle_length + xor_region_size with raw_middle_length >= 0; the
\* reads issued on the stream are contiguous from offset 0 to the end of the
\* file, so every byte is consumed exactly once and the stream is at
\* end-of-file when the call returns.
C3_Partition ==
    Succeeded =>
        LET raw_middle_length == Len(file) - AesEnd - header.xor_size IN
        /\ raw_middle_length >= 0
        /\ header.xor_size > 0 => raw_len = raw_middle_length
        /\ Len(file) = SIZE + align_size(header.aes_size) + raw_middle_length
                       + header.xor_size
        /\ pos = Len(file)
        /\ reads[1] = <<0, SIZE>>
        /\ reads[2] = <<SIZE, align_size(header.aes_size)>>
        /\ \A i \in 1..(Len(reads) - 1) : reads[i + 1][1] = reads[i][1] + reads[i][2]
        /\ reads[Len(reads)][1] + reads[Len(reads)][2] = Len(file)
        /\ Len(outcome.val) = Len(DecryptedAesRegion) + raw_middle_length
                              + header.xor_size

C3_Witness ==
    /\ Succeeded
    /\ header.xor_size > 0
    /\ raw_len > 0
    /\ Len(reads) = 4

\* C4: when xor_region_size is 0, every byte after the AES region, up to the
\* end of the file, is appended unchanged: the result is the decrypted AES
\* region followed by the rest of the file, an expression in which xor_key
\* does not occur.
C4_NoXorPass ==
    (Succeeded /\ header.xor_size = 0)
        => outcome.val = DecryptedAesRegion \o Drop(file, AesEnd)

C4_Witness ==
    /\ Succeeded
    /\ header.xor_size = 0
    /\ Len(file) > AesEnd
    /\ xor_key # 0

Returned(fn) == entry = fn /\ pc = "returned"

\* C5: align_size(n) = n + (16 - n % 16): a multiple of 16, strictly greater
\* than n, at most n + 16, a full block more when n is a multiple of 16;
\* align_size(15) = 16, align_size(16) = 32, align_size(17) = 32.
C5_AlignSize ==
    Returned("AesHandler::align_size") =>
        /\ ret = arg + (16 - (arg % 16))
        /\ ret % 16 = 0
        /\ ret > arg
        /\ ret <= arg + 16
        /\ (arg % 16 = 0) => (ret = arg + 16)
        /\ (arg = 15) => (ret = 16)
        /\ (arg = 16) => (ret = 32)
        /\ (arg = 17) => (ret = 32)

C5_Witness ==
    /\ Returned("AesHandler::align_size")
    /\ arg = 16
    /\ ret = 32

\* the buffer ends in p well-formed PKCS#7 padding bytes
ValidPadding(data) ==
    /\ Len(data) > 0
    /\ LET p == data[Len(data)] IN
       /\ 1 <= p
       /\ p <= 16
       /\ p <= Len(data)
       /\ \A i \in (Len(data) - p + 1)..Len(data) : data[i] = p

UnpadCall == Returned("AesHandler::pkcs7_unpad")

\* C6: pkcs7_unpad succeeds on a buffer whose last byte p has 1 <= p <= 16,
\* p <= length, and whose last p bytes all equal p; the buffer is then
\* truncated by exactly p bytes, the prefix unchanged.
C6_UnpadSuccess ==
    (UnpadCall /\ ValidPadding(arg)) =>
        /\ ret.tag = "Ok"
        /\ Len(ret.val) = Len(arg) - arg[Len(arg)]
        /\ \A i \in 1..Len(ret.val) : ret.val[i] = arg[i]

C6_Witness ==
    /\ UnpadCall
    /\ arg = <<1, 2, 3, 4, 4, 4, 4>>
    /\ ret = Ok(<<1, 2, 3>>)

\* C7: pkcs7_unpad returns an error exactly when the buffer is empty, or its
\* last byte p is 0, or p > 16, or p > length, or some of the last p bytes
\* differ from p; in every other case it succeeds.
C7_UnpadError ==
    UnpadCall =>
        /\ ret.tag \in {"Ok", "Err"}
        /\ (ret.tag = "Err") <=>
                (\/ Len(arg) = 0
                 \/ arg[Len(arg)] = 0
                 \/ arg[Len(arg)] > 16
                 \/ arg[Len(arg)] > Len(arg)
                 \/ \E i \in (Len(arg) - arg[Len(arg)] + 1)..Len(arg) :
                        arg[i] # arg[Len(arg)])

C7_Witness ==
    /\ UnpadCall
    /\ Len(arg) > 4
    /\ arg[Len(arg)] = 4
    /\ arg[Len(arg) - 3] # 4
    /\ ret.tag = "Err"

\* C8: with an AES key whose length is not 16, V4Decryptor::decrypt returns
\* the key-length error, and the file is never opened, no byte of it is read
\* and no block is decrypted, whatever the file holds and whether it exists.
C8_KeyLengthFirst ==
    (entry = "V4Decryptor::decrypt" /\ Len(aes_key) # 16) =>
        /\ opened = 0
        /\ reads = <<>>
        /\ pos = 0
        /\ blocks = 0
        /\ pc \in {"check_key", "done"}
        /\ Done => outcome = Err(AesDecryptError("key length"))

C8_Witness ==
    /\ Done
    /\ Len(aes_key) = 17
    /\ exists
    /\ Len(file) > SIZE
    /\ outcome = Err(AesDecryptError("key length"))

\* C9: when the stream holds fewer than 15 bytes, V4Decryptor::decrypt fails
\* with DecryptError::HeaderParseError.
C9_ShortHeaderParseError ==
    (entry = "V4Decryptor::decrypt" /\ Done /\ opened > 0 /\ Len(file) < SIZE)
        => outcome = Err(HeaderParseError)

\* C10: from_bytes on an input of at least 15 bytes yields the two size
\* fields as unsigned 32-bit little-endian integers read at offsets 6 and 10,
\* and the decryptor consumes exactly 15 header bytes, so that the AES region
\* is read from file offset 15.
LeValue(b, at) ==
    b[at + 1] + 256 * b[at + 2] + 65536 * b[at + 3] + 16777216 * b[at + 4]

C10_HeaderLayout ==
    /\ (Returned("V4Header::from_bytes") /\ Len(arg) >= 15) =>
            /\ ret.tag = "Ok"
            /\ ret.val.aes_size = LeValue(arg, 6)
            /\ ret.val.xor_size = LeValue(arg, 10)
    /\ (pc = "read_aes") =>
            /\ header.aes_size = LeValue(file, 6)
            /\ header.xor_size = LeValue(file, 10)
            /\ pos = 15
            /\ reads = << <<0, 15>> >>
    /\ (pc = "decrypt_ecb") =>
            /\ reads[2][1] = 15
            /\ aes_data = SubSeq(file, 16, 15 + Len(aes_data))

C10_Witness ==
    /\ pc = "decrypt_ecb"
    /\ header.aes_size = MaxPlainLen
    /\ header.xor_size = MaxTrailLen + 65536
    /\ LeValue(file, 10) = MaxTrailLen + 65536

\* C11: on a file that can be opened, VersionDetector::detect returns V4V1
\* iff the first 6 bytes are 07 08 56 31 08 07, V4V2 iff they are
\* 07 08 56 32 08 07, and V3 otherwise, files of fewer than 6 bytes and empty
\* files included; it never returns Unknown and DatDecryptor::decrypt never
\* returns UnsupportedVersion.
Detected == entry = "DatDecryptor::decrypt" /\ version # "none"

C11_Detect ==
    /\ Detected =>
          version = IF Len(file) >= 6 /\ SubSeq(file, 1, 6) = <<7, 8, 86, 49, 8, 7>>
                    THEN "V4V1"
                    ELSE IF Len(file) >= 6 /\ SubSeq(file, 1, 6) = <<7, 8, 86, 50, 8, 7>>
                    THEN "V4V2"
                    ELSE "V3"
    /\ (entry = "DatDecryptor::decrypt" /\ exists /\ pc \notin {"detect_open", "detect_read"})
          => Detected
    /\ version # "Unknown"
    /\ outcome # Err(UnsupportedVersion)

C11_Witness ==
    /\ Detected
    /\ version = "V3"
    /\ Len(file) >= 6
    /\ SubSeq(file, 1, 3) = <<7, 8, 86>>
    /\ SubSeq(file, 5, 6) = <<8, 7>>

\* C12: for every file detected as V3, DatDecryptor::decrypt returns a buffer
\* as long as the file with output[i] = file[i] XOR xor_key, whether or not
\* an AES key was given and whatever its length.
C12_LegacyXor ==
    (entry = "DatDecryptor::decrypt" /\ Done /\ version = "V3")
        => /\ outcome.tag = "Ok"
           /\ Len(outcome.val) = Len(file)
           /\ \A i \in 1..Len(file) : outcome.val[i] = XorByte(file[i], xor_key)

C12_Witness ==
    /\ entry = "DatDecryptor::decrypt" /\ Done /\ version = "V3"
    /\ Len(file) > SIGNATURE_LEN
    /\ xor_key # 0
    /\ aes_key_some /\ Len(aes_key) # 16
    /\ outcome.tag = "Ok"

\* C13: for every file detected as V4V1 or V4V2, DatDecryptor::decrypt called
\* without an AES key fails with the missing-key error; V4Decryptor::decrypt
\* does not run: after the six bytes of detect the file is not opened again
\* and no header or region is read.  The missing-key error value is returned
\* in no other case, so it differs from the key-length and padding errors.
MissingKey == Err(AesDecryptError("missing key"))

C13_MissingKey ==
    /\ (Detected /\ version \in {"V4V1", "V4V2"} /\ ~aes_key_some /\ pc # "dispatch")
          => /\ Done
             /\ outcome = MissingKey
             /\ opened = 1
             /\ detect_reads = <<<<0, 6>>>>
             /\ reads = <<>>
             /\ header = NoHeader
             /\ blocks = 0
    /\ outcome = MissingKey
          => Detected /\ version \in {"V4V1", "V4V2"} /\ ~aes_key_some
    /\ MissingKey \notin {Err(AesDecryptError("key length")),
                          Err(AesDecryptError("empty data")),
                          Err(AesDecryptError("invalid padding")),
                          Err(AesDecryptError("padding verification failed"))}

C13_Witness ==
    /\ Done
    /\ version = "V4V2"
    /\ ~aes_key_some
    /\ Len(file) > SIZE
    /\ outcome = MissingKey

\* C14: xor_decrypt applied twice with the same key gives back the input,
\* for every key in 0..255 and every buffer, the empty one included, and
\* xor_decrypt with key 0 is the identity.
C14_XorInvolution ==
    /\ Returned("V3Decryptor::xor_decrypt") => ret = arg.data
    /\ (entry = "V3Decryptor::xor_decrypt" /\ pc = "again" /\ arg.key = 0)
          => ret = arg.data

C14_Witness ==
    /\ Returned("V3Decryptor::xor_decrypt")
    /\ Len(arg.data) = MaxXorLen
    /\ arg.key = 255
    /\ arg.data[1] # arg.data[2]
    /\ ret = arg.data

\* C15: whatever the file holds and whatever the keys, a decrypt call ends
\* with a payload or an error value and never panics, also when
\* xor_region_size exceeds the bytes left after the AES region.
C15_NoPanic == outcome.tag # "Panic"

\* C16: every failure inside a container decrypt call -- a short read of the
\* AES region, bad PKCS#7 padding, a middle or XOR region shorter than the
\* header says -- ends the call at that step with an error: no region is read
\* after the failing step, no payload is returned, no step is done twice.
AesRegionShort == Len(file) - SIZE < align_size(LeValue(file, 6))
BadPadding ==
    /\ ~AesRegionShort
    /\ decrypt_ecb(SubSeq(file, SIZE + 1, SIZE + align_size(LeValue(file, 6))),
                   aes_key).tag = "Err"
TailShort ==
    /\ ~AesRegionShort
    /\ LeValue(file, 10) > Len(file) - SIZE - align_size(LeValue(file, 6))

C16_FailFast ==
    (ContainerCall /\ Done /\ exists /\ Len(aes_key) = 16 /\ Len(file) >= SIZE) =>
        /\ AesRegionShort =>
              /\ outcome = Err(IoError("failed to fill whole buffer"))
              /\ Len(reads) = 2 /\ blocks = 0 /\ result = <<>>
        /\ BadPadding =>
              /\ outcome = decrypt_ecb(aes_data, aes_key)
              /\ outcome.tag = "Err"
              /\ Len(reads) = 2
              /\ blocks = Len(aes_data) \div BLOCK_SIZE
              /\ result = <<>>
        /\ (TailShort /\ ~BadPadding) =>
              /\ outcome.tag = "Err"
              /\ Len(reads) <= 4
        /\ outcome.tag # "Ok" => outcome.val = <<>>

\* C17 as stated: during one top-level decrypt call the file is opened once,
\* the read position never decreases and no byte of the file is read more
\* than once.
End(log) == IF log = <<>> THEN 0 ELSE log[Len(log)][1] + log[Len(log)][2]
Contiguous(log) ==
    /\ log # <<>> => log[1][1] = 0
    /\ \A i \in 1..Len(log) : log[i][2] >= 0
    /\ \A i \in 1..(Len(log) - 1) : log[i + 1][1] = log[i][1] + log[i][2]

C17_OneStream ==
    entry = "DatDecryptor::decrypt" =>
        /\ opened <= 1
        /\ Contiguous(detect_reads \o reads)

\* C17, amended: one DatDecryptor::decrypt call opens the file at most twice,
\* once in detect, which reads at most the first 6 bytes, and once in the
\* decryptor of the detected version; on each stream the reads are forward
\* and contiguous from offset 0 and stay inside the file, so the position of
\* a stream never decreases and no byte is read twice on the same stream.
\* V4Decryptor::decrypt called directly opens one stream.
C17_ForwardPerStream ==
    entry \in {"DatDecryptor::decrypt", "V4Decryptor::decrypt"} =>
        /\ opened <= (IF entry = "DatDecryptor::decrypt" THEN 2 ELSE 1)
        /\ entry = "V4Decryptor::decrypt" => detect_reads = <<>>
        /\ Len(detect_reads) <= 1
        /\ End(detect_reads) <= 6
        /\ Contiguous(detect_reads)
        /\ Contiguous(reads)
        /\ End(reads) <= Len(file)
        /\ pos = IF entry = "DatDecryptor::decrypt" /\ opened = 1
                 THEN End(detect_reads) ELSE End(reads)

C17_Witness ==
    /\ entry = "DatDecryptor::decrypt"
    /\ Done
    /\ opened = 2
    /\ detect_reads = <<<<0, 6>>>>
    /\ Len(reads) = 4
    /\ reads[1] = <<0, SIZE>>
    /\ End(reads) = Len(file)

\* C18: V4Decryptor::decrypt gives the same result on two files that differ
\* only in header bytes 0..5 (signature) or in header byte 14 (reserved),
\* for the same keys: the result is a function of the two size fields, of
\* the bytes after the header and of the keys.  ContainerResult is that
\* function; it is applied to the file with bytes 0..5 and 14 blanked.
Blank(f) ==
    [i \in 1..Len(f) |-> IF i <= 6 \/ i = SIZE THEN 0 ELSE f[i]]

ContainerResult(f, xk, key) ==
    IF Len(key) # 16 THEN Err(AesDecryptError("key length"))
    ELSE IF Len(f) < SIZE THEN Err(IoError("failed to fill whole buffer"))
    ELSE LET aes_size == LeValue(f, 6)
             xor_size == LeValue(f, 10)
             body == Drop(f, SIZE)
             aligned == aes_size + (16 - (aes_size % 16))
         IN  IF Len(body) < aligned THEN Err(IoError("failed to fill whole buffer"))
             ELSE LET plain == decrypt_ecb(Take(body, aligned), key) IN
                  IF plain.tag = "Err" THEN plain
                  ELSE IF xor_size = 0 THEN Ok(plain.val \o Drop(body, aligned))
                  ELSE IF xor_size > Len(body) - aligned THEN Panic("")
                  ELSE Ok(plain.val
                          \o SubSeq(body, aligned + 1, Len(body) - xor_size)
                          \o [i \in 1..xor_size |->
                                XorByte(body[Len(body) - xor_size + i], xk)])

SameOutcome(a, b) == a.tag = b.tag /\ (a.tag # "Panic" => a = b)

C18_HeaderFieldsOnly ==
    (ContainerCall /\ Done /\ exists /\ aes_key_some)
        => SameOutcome(outcome, ContainerResult(Blank(file), xor_key, aes_key))

C18_Witness ==
    /\ entry = "V4Decryptor::decrypt"
    /\ Done
    /\ Len(file) >= SIZE
    /\ SubSeq(file, 1, 6) = <<0, 0, 0, 0, 0, 0>>
    /\ file[SIZE] = 255
    /\ outcome.tag = "Ok"
    /\ Len(outcome.val) > BLOCK_SIZE + MaxTrailLen

\* C19 as stated: detect_mime_type returns image/jpeg for a prefix FF D8 FF,
\* image/png for 89 50 4E 47, image/gif for 47 49 46, image/webp for RIFF at
\* offset 0 with WEBP at offset 8, and image/jpeg for every other input,
\* whatever its length.
HasAt(data, at, magic) ==
    /\ Len(data) >= at + Len(magic)
    /\ SubSeq(data, at + 1, at + Len(magic)) = magic

MimeTable(data) ==
    IF HasAt(data, 0, <<255, 216, 255>>) THEN "image/jpeg"
    ELSE IF HasAt(data, 0, <<137, 80, 78, 71>>) THEN "image/png"
    ELSE IF HasAt(data, 0, <<71, 73, 70>>) THEN "image/gif"
    ELSE IF HasAt(data, 0, <<82, 73, 70, 70>>) /\ HasAt(data, 8, <<87, 69, 66, 80>>)
         THEN "image/webp"
    ELSE "image/jpeg"

C19_MimeTable ==
    Returned("detect_mime_type") => ret = MimeTable(arg)

\* C19, amended: the table holds for every input of at least 4 bytes; an
\* input of fewer than 4 bytes gives application/octet-stream, whatever it
\* starts with.
C19_MimeTableFrom4 ==
    Returned("detect_mime_type") =>
        ret = IF Len(arg) < 4 THEN "application/octet-stream" ELSE MimeTable(arg)

C19_Witness ==
    /\ Returned("detect_mime_type")
    /\ Len(arg) >= 12
    /\ ret = "image/webp"

\* C20: WxAMDecoder::decode called with empty input returns EmptyInput in
\* every state of the process, also when the library is missing or failed
\* to load.
C20_EmptyInput ==
    (Returned("WxAMDecoder::decode") /\ arg = <<>>) => ret = Err(EmptyInput)

\* C21: every buffer decrypt_aes_section hands to AesHandler::decrypt_ecb has
\* a length that is a positive multiple of 16, whatever aes_size the header
\* holds (0 included), so chunks_exact_mut leaves no partial block.
C21_BlockAligned ==
    pc = "decrypt_ecb" =>
        /\ Len(aes_data) > 0
        /\ Len(aes_data) % 16 = 0
        /\ Len(aes_data) > header.aes_size
        /\ Len(aes_data) - header.aes_size <= 16
        /\ decrypt_chunks(aes_data, aes_key)
              = [i \in 1..Len(aes_data) |->
                    decrypt_block(SubSeq(aes_data, 16 * ((i - 1) \div 16) + 1,
                                         16 * ((i - 1) \div 16) + 16),
                                  aes_key)[((i - 1) % 16) + 1]]

C21_Witness ==
    /\ pc = "decrypt_ecb"
    /\ header.aes_size = 0
    /\ Len(aes_data) = 16
    /\ Len(aes_key) = 16

\* C24: whenever V4Decryptor::decrypt succeeds, with xor_size > 0 or with
\* xor_size = 0, the payload has file_length - 15 - p bytes, where p in
\* 1..16 is the padding length pkcs7_unpad removed from the AES region.
RemovedPadding ==
    LET decrypted == decrypt_chunks(aes_data, aes_key)
    IN  decrypted[Len(decrypted)]

C24_PayloadLength ==
    Succeeded =>
        /\ RemovedPadding \in 1..16
        /\ Len(result) = Len(outcome.val)
        /\ Len(outcome.val) = Len(file) - 15 - RemovedPadding

C24_Witness ==
    /\ Succeeded
    /\ header.xor_size = 0
    /\ Len(file) > AesEnd
    /\ RemovedPadding = 16
    /\ Len(outcome.val) = Len(file) - 31

\* C25 as stated: on every successful container decrypt the decrypted AES
\* region has exactly aes_size bytes.
C25_ExactSize ==
    Succeeded => Len(DecryptedAesRegion) = header.aes_size

\* C25, amended: on a successful container decrypt the decrypted AES region
\* has L bytes with align_size(aes_size) - 16 <= L <= align_size(aes_size) - 1;
\* L = aes_size when the file was written with aes_size the length of the
\* plaintext before PKCS#7 padding and is decrypted with the key it was
\* written with.  The decryptor does not compare L with aes_size: a file
\* whose field and padding disagree decrypts with L # aes_size.
WrittenByTheBook ==
    /\ origin.aes_field = Len(origin.plain)
    /\ origin.pad = Rep(PadLen(Len(origin.plain)), PadLen(Len(origin.plain)))
    /\ origin.key = aes_key

C25_SizeRange ==
    Succeeded =>
        /\ Len(DecryptedAesRegion) >= align_size(header.aes_size) - 16
        /\ Len(DecryptedAesRegion) <= align_size(header.aes_size) - 1
        /\ WrittenByTheBook => Len(DecryptedAesRegion) = header.aes_size

C25_Witness ==
    /\ Succeeded
    /\ Len(DecryptedAesRegion) # header.aes_size
    /\ Len(DecryptedAesRegion) = header.aes_size + 1
    /\ header.aes_size > 0

\* C22: under every interleaving of the decode calls of parallel tasks,
\* load_dll_internal runs at most once in the process, every caller that
\* got past load_dll observed the one outcome the cell holds, and a failed
\* load stays in the cell: no later call loads again, also when the library
\* has appeared in the meantime.
Loading == { i \in 1..page_images : tasks[i].pc = "loading" }

C22_LoadOnce ==
    entry = "get_images_batch" =>
        /\ loads <= 1
        /\ Cardinality(Loading) = (IF dll_instance = "running" THEN 1 ELSE 0)
        /\ Completed(dll_instance) => loads = 1
        /\ \A i \in 1..page_images :
              tasks[i].seen # "none"
                  => Completed(dll_instance) /\ tasks[i].seen = dll_instance

C22_Witness ==
    /\ entry = "get_images_batch"
    /\ page_images >= 2
    /\ tasks[1].seen = "DllNotFound"
    /\ tasks[2].seen = "DllNotFound"
    /\ origin.dll = "present"
    /\ loads = 1

\* C23: under every interleaving of the decrypt tasks of get_images_batch,
\* when the batch is returned and clear_image_cache has not run since the
\* call began, every image_id of the batch is a key of image_cache; the
\* batch lists the tasks that returned Ok, in page order; get_image_data for
\* a listed image_id fails only when clear_image_cache has run.
Listed == { images_with_data[k] : k \in 1..Len(images_with_data) }

C23_ListedImagesCached ==
    entry = "get_images_batch" =>
        /\ (pc = "returned" /\ ~cleared) => Listed \subseteq DOMAIN image_cache
        /\ pc = "returned" =>
              /\ Listed = { i \in 1..page_images : tasks[i].ret = "Ok" }
              /\ \A k \in 1..(Len(images_with_data) - 1) :
                    images_with_data[k] < images_with_data[k + 1]
        /\ get_image.state = "Err" => cleared
        /\ (get_image.state = "Err" /\ cache_lock # <<"get", 0>>)
              => get_image.image_id \in Listed

\* clear_image_cache ran between the inserts of two tasks: both images are
\* listed, the first is gone from the cache and get_image_data fails for it
C23_Witness ==
    /\ entry = "get_images_batch"
    /\ pc = "returned"
    /\ cleared
    /\ Len(images_with_data) >= 2
    /\ images_with_data[1] \notin DOMAIN image_cache
    /\ images_with_data[2] \in DOMAIN image_cache
    /\ get_image = [image_id |-> images_with_data[1], state |-> "Err"]

====
